---- MODULE Spec2Model ----
(***************************************************************************)
(* Model of marabunta's YamlParser (src/marabunta/parser.py): one parse    *)
(* call over a loaded YAML document, step by step, in the order of the     *)
(* code.  Python values are records tagged by their shape in field t.      *)
(***************************************************************************)
EXTENDS Integers, Sequences, FiniteSets, TLC

\* ------------------------------------------------------------------ bounds
MaxItems == 2       \* longest command / addon list of a document
MaxVersions == 2    \* longest `versions` list of a document
MaxArgLen == 2      \* longest option string, in characters

\* ------------------------------------------------------- python primitives
None == "None"

Elems == {"a", "b"}
ModeNames == {"demo", "prod"}
OperationTypes == {"pre", "post"}
AddonKinds == {"upgrade", "install", "remove"}
Kinds == OperationTypes \cup AddonKinds
Scopes == {None} \cup ModeNames

SeqsUpTo(S, n) == UNION {[1..k -> S] : k \in 0..n}

\* A string-valued python object: None, a str (its characters), or an int.
PyNone == [t |-> "none", s |-> <<>>]
PyStr(s) == [t |-> "str", s |-> s]
PyInt == [t |-> "int", s |-> <<>>]

\* bool(v) for None / str / non-zero int
StrTruthy(v) == v.t = "int" \/ (v.t = "str" /\ v.s # <<>>)

\* python `a or b`
PyOr(a, b) == IF StrTruthy(a) THEN a ELSE b

RECURSIVE SplitFrom(_, _, _)
SplitFrom(s, i, word) ==
  IF i > Len(s)
  THEN IF word = <<>> THEN <<>> ELSE <<word>>
  ELSE IF s[i] = " "
       THEN (IF word = <<>> THEN <<>> ELSE <<word>>) \o SplitFrom(s, i + 1, <<>>)
       ELSE SplitFrom(s, i + 1, Append(word, s[i]))

\* str.split(): the maximal runs of non-blank characters, in order
split(s) == SplitFrom(s, 1, <<>>)

\* ------------------------------------------------- values of a list slot
\* The value found under pre/post/upgrade/install/remove/versions.
Slot(t) == [t |-> t, items |-> <<>>]
AbsentSlot == Slot("absent")
ListOf(items) == [t |-> "list", items |-> items]
\* null; 0 or False; ""; {}; a non-empty scalar; a non-empty mapping
NonListShapes == {"null", "zero", "emptystr", "emptymap", "scalar", "map"}

IsList(v) == v.t = "list"
SlotTruthy(v) == v.t \in {"scalar", "map"} \/ (v.t = "list" /\ v.items # <<>>)

\* dict.get(key) or []
GetOrEmptyList(v) == IF SlotTruthy(v) THEN v ELSE ListOf(<<>>)

\* ------------------------------------------------------ values of a block
\* A mapping is a record: t = "map", one field per known key (t = "absent"
\* when the key is not in the mapping) and `extra`, its other keys.
\* null; 0 or False; a non-empty scalar; a non-empty sequence
NonMapShapes == {"null", "zero", "scalar", "list"}

KeysOf(d) == {k \in (DOMAIN d) \ {"t", "extra"} : d[k].t # "absent"} \cup d.extra
IsDict(d) == d.t = "map"
BlockTruthy(d) == d.t \in {"scalar", "list"} \/ (d.t = "map" /\ KeysOf(d) # {})

OpsBlock(t, pre, post, extra) == [t |-> t, pre |-> pre, post |-> post, extra |-> extra]
EmptyOps == OpsBlock("map", AbsentSlot, AbsentSlot, {})
OpsShape(t) == OpsBlock(t, AbsentSlot, AbsentSlot, {})

AddonsBlock(t, up, ins, rem, extra) ==
  [t |-> t, upgrade |-> up, install |-> ins, remove |-> rem, extra |-> extra]
EmptyAddons == AddonsBlock("map", AbsentSlot, AbsentSlot, AbsentSlot, {})
AddonsShape(t) == AddonsBlock(t, AbsentSlot, AbsentSlot, AbsentSlot, {})

ModeBlock(t, ops, addons, extra) ==
  [t |-> t, operations |-> ops, addons |-> addons, extra |-> extra]
ModeShape(t) == ModeBlock(t, OpsShape("absent"), AddonsShape("absent"), {})

ModesBlock(t, demo, prod) == [t |-> t, demo |-> demo, prod |-> prod, extra |-> {}]
ModesShape(t) == ModesBlock(t, ModeShape("absent"), ModeShape("absent"))

\* A `version` identifier: the key is absent (t = "absent") or a string.
NoNumber == [t |-> "absent", s |-> <<>>]
Number(n) == [t |-> "str", s |-> <<n>>]

VersionNode(t, number, ops, addons, modes, extra) ==
  [t |-> t, version |-> number, operations |-> ops, addons |-> addons,
   modes |-> modes, extra |-> extra]
NodeShape(t) ==
  VersionNode(t, NoNumber, OpsShape("absent"), AddonsShape("absent"),
              ModesShape("absent"), {})

OptionsBlock(t, cmd, args, path) ==
  [t |-> t, odoo_cmd |-> cmd, odoo_args |-> args, odoo_addons_path |-> path,
   extra |-> {}]
AbsentOpt == [t |-> "absent", s |-> <<>>]
OptionsShape(t) == OptionsBlock(t, AbsentOpt, AbsentOpt, AbsentOpt)

MigrationNode(t, options, versions, extra) ==
  [t |-> t, options |-> options, versions |-> versions, extra |-> extra]
MigrationShape(t) == MigrationNode(t, OptionsShape("absent"), AbsentSlot, {})

Root(t, migration, extra) == [t |-> t, migration |-> migration, extra |-> extra]
RootShape(t) == Root(t, MigrationShape("absent"), {})

\* dict.get(key): the value, or None when the key is absent
GetOpt(options, key) ==
  IF options[key].t = "absent" THEN PyNone ELSE options[key]

\* ------------------------------------------------------------- exceptions
\* An exception is its class (kind) and the parts of its message: the
\* template (form), the literal text the template puts before the name
\* (prefix), the name it formats in, and the key sets it lists.
Err(kind, form, prefix, name, extra, allowed) ==
  [kind |-> kind, form |-> form, prefix |-> prefix, name |-> name,
   extra |-> extra, allowed |-> allowed]
NoError == Err("ok", "", "", "", {}, {})

\* ParseError(u"'{}' key must be a dict".format(dict_name), YAML_EXAMPLE)
MustBeDict(name) == Err("ParseError", "must_be_dict", "", name, {}, {})
\* ParseError(u"'%s' key must be a list" % (key,), YAML_EXAMPLE)
MustBeList(name) == Err("ParseError", "must_be_list", "", name, {}, {})
\* ParseError("u{}: the keys {} are unexpected. (allowed keys: {})".format(...))
Unexpected(name, extra, allowed) ==
  Err("ParseError", "unexpected", "u", name, extra, allowed)
\* ParseError(u"'migration' key is missing", YAML_EXAMPLE)
MissingMigration == Err("ParseError", "missing", "", "migration", {}, {})
\* ConfigurationError(u"no marabunta yaml supplied")
NoYaml == Err("ConfigurationError", "no_yaml", "", "", {}, {})
\* the ConfigurationError of the database descriptor builder
DsnError == Err("ConfigurationError", "dsn", "", "", {}, {})
\* AttributeError: '<type>' object has no attribute '<name>'
AttributeError(name) == Err("AttributeError", "no_attribute", "", name, {}, {})

check_dict_expected_keys(expected_keys, current, dict_name) ==
  IF ~IsDict(current)
  THEN MustBeDict(dict_name)
  ELSE LET extra_keys == KeysOf(current) \ expected_keys
       IN IF extra_keys # {}
          THEN Unexpected(dict_name, extra_keys, expected_keys)
          ELSE NoError

\* ------------------------------------------------- the objects of the plan
MigrationOption(odoo_cmd, odoo_args, odoo_dsn, odoo_addons_path) ==
  [odoo_cmd |-> odoo_cmd, odoo_args |-> odoo_args, odoo_dsn |-> odoo_dsn,
   odoo_addons_path |-> odoo_addons_path]
NoOptions == MigrationOption(PyNone, <<>>, "unset", PyNone)

Version(number, options) ==
  [number |-> number, options |-> options,
   buckets |-> [sc \in Kinds \X Scopes |-> <<>>]]
NoVersion == Version(PyNone, NoOptions)

Operation(command) == command

add_operation(version, operation_type, operation, mode) ==
  [version EXCEPT !.buckets[<<operation_type, mode>>] = Append(@, operation)]

add_addons(version, kind, addons, mode) ==
  [version EXCEPT !.buckets[<<kind, mode>>] = @ \o addons]
add_upgrade_addons(version, addons, mode) == add_addons(version, "upgrade", addons, mode)
add_install_addons(version, addons, mode) == add_addons(version, "install", addons, mode)
add_remove_addons(version, addons, mode) == add_addons(version, "remove", addons, mode)

Migration(versions) == [versions |-> versions]

\* Database(config).dsn(): a DSN, or a ConfigurationError
DatabaseDsn(config) ==
  IF config.dsn_ok THEN [err |-> NoError, dsn |-> "dsn"]
                   ELSE [err |-> DsnError, dsn |-> "unset"]

\* -------------------------------------------------------- option resolution
EmptyOptions == OptionsBlock("map", AbsentOpt, AbsentOpt, AbsentOpt)

\* migration.get('options') or {}
options_of(migration) ==
  IF BlockTruthy(migration.options) THEN migration.options ELSE EmptyOptions

\* The document's value taking precedence over the configuration's.
resolve_odoo_cmd_document_first(config, options) ==
  PyOr(GetOpt(options, "odoo_cmd"), config.odoo_cmd)

\* self.config.odoo_cmd or options.get('odoo_cmd')
resolve_odoo_cmd(config, options) ==
  PyOr(config.odoo_cmd, GetOpt(options, "odoo_cmd"))

\* self.config.odoo_args or options.get('odoo_args') or ''
resolve_odoo_args(config, options) ==
  PyOr(PyOr(config.odoo_args, GetOpt(options, "odoo_args")), PyStr(<<>>))

\* self.config.odoo_addons_path or options.get('odoo_addons_path') or ''
resolve_odoo_addons_path(config, options) ==
  PyOr(PyOr(config.odoo_addons_path, GetOpt(options, "odoo_addons_path")),
       PyStr(<<>>))

\* options.get is evaluated only where the configuration's value is falsy
CallsOptionsGet(config) ==
  \/ ~StrTruthy(config.odoo_cmd)
  \/ ~StrTruthy(config.odoo_args)
  \/ ~StrTruthy(config.odoo_addons_path)

parse_options(config, migration) ==
  LET options == options_of(migration)
      odoo_cmd == resolve_odoo_cmd(config, options)
      odoo_args == resolve_odoo_args(config, options)
      odoo_addons_path == resolve_odoo_addons_path(config, options)
      odoo_dsn == DatabaseDsn(config)
  IN IF ~IsDict(options) /\ CallsOptionsGet(config)
     THEN [err |-> AttributeError("get"), options |-> NoOptions]
     ELSE IF odoo_dsn.err # NoError
     THEN [err |-> odoo_dsn.err, options |-> NoOptions]
     ELSE IF odoo_args.t # "str"
     THEN [err |-> AttributeError("split"), options |-> NoOptions]
     ELSE [err |-> NoError,
           options |-> MigrationOption(odoo_cmd, split(odoo_args.s),
                                       odoo_dsn.dsn, odoo_addons_path)]

\* ------------------------------------------------------------------ versions
\* A loop that yields the entries last to first.
RECURSIVE Reversed(_)
Reversed(l) == IF l = <<>> THEN <<>> ELSE Append(Reversed(Tail(l)), Head(l))
versions_reversed(migration) ==
  LET v == GetOrEmptyList(migration.versions)
  IN IF IsList(v) THEN ListOf(Reversed(v.items)) ELSE v

\* migration.get('versions', []): only an absent key becomes the empty list.
versions_default_only(migration) ==
  IF migration.versions.t = "absent" THEN ListOf(<<>>) ELSE migration.versions

\* migration.get('versions') or []
versions_of(migration) == GetOrEmptyList(migration.versions)

parse_versions_check(versions) ==
  IF ~IsList(versions) THEN MustBeList("versions") ELSE NoError

\* -------------------------------------------------------------- operations
\* A loop that skips a command the bucket already holds.
RECURSIVE add_commands_unique(_, _, _, _)
add_commands_unique(version, operation_type, commands, mode) ==
  IF commands = <<>>
  THEN version
  ELSE add_commands_unique(
         IF \E j \in 1..Len(version.buckets[<<operation_type, mode>>]) :
              version.buckets[<<operation_type, mode>>][j] = Head(commands)
         THEN version
         ELSE add_operation(version, operation_type, Operation(Head(commands)), mode),
         operation_type, Tail(commands), mode)

RECURSIVE add_commands(_, _, _, _)
add_commands(version, operation_type, commands, mode) ==
  IF commands = <<>>
  THEN version
  ELSE add_commands(
         add_operation(version, operation_type, Operation(Head(commands)), mode),
         operation_type, Tail(commands), mode)

RECURSIVE operations_loop(_, _, _, _)
operations_loop(version, operations, mode, order) ==
  IF order = <<>>
  THEN [err |-> NoError, version |-> version]
  ELSE LET operation_type == Head(order)
           commands == operations[operation_type]
       IN IF ~IsList(commands)
          THEN [err |-> MustBeList(operation_type), version |-> version]
          ELSE operations_loop(
                 add_commands(version, operation_type, commands.items, mode),
                 operations, mode, Tail(order))

\* A call that does not pass the mode on to add_operation.
parse_operations_untagged(version, operations, mode, order) ==
  LET err == check_dict_expected_keys({"pre", "post"}, operations, "operations")
  IN IF err # NoError
     THEN [err |-> err, version |-> version]
     ELSE operations_loop(version, operations, None, order)

\* `order` is the order in which operations.items() yields the keys
parse_operations(version, operations, mode, order) ==
  LET err == check_dict_expected_keys({"pre", "post"}, operations, "operations")
  IN IF err # NoError
     THEN [err |-> err, version |-> version]
     ELSE operations_loop(version, operations, mode, order)

\* ------------------------------------------------------------------ addons
\* addons.get('upgrade', []): the type check without the emptiness test.
addons_upgrade_strict(version, addons, mode) ==
  LET upgrade == IF addons.upgrade.t = "absent" THEN ListOf(<<>>) ELSE addons.upgrade
  IN IF ~IsList(upgrade)
     THEN [err |-> MustBeList("upgrade"), version |-> version]
     ELSE [err |-> NoError,
           version |-> add_upgrade_addons(version, upgrade.items, mode)]

addons_upgrade(version, addons, mode) ==
  LET upgrade == GetOrEmptyList(addons.upgrade)
  IN IF ~SlotTruthy(upgrade) THEN [err |-> NoError, version |-> version]
     ELSE IF ~IsList(upgrade)
     THEN [err |-> MustBeList("upgrade"), version |-> version]
     ELSE [err |-> NoError,
           version |-> add_upgrade_addons(version, upgrade.items, mode)]

addons_install(version, addons, mode) ==
  LET install == GetOrEmptyList(addons.install)
  IN IF ~SlotTruthy(install) THEN [err |-> NoError, version |-> version]
     ELSE IF ~IsList(install)
     THEN [err |-> MustBeList("install"), version |-> version]
     ELSE [err |-> NoError,
           version |-> add_install_addons(version, install.items, mode)]

addons_remove(version, addons, mode) ==
  LET remove == GetOrEmptyList(addons.remove)
  IN IF ~SlotTruthy(remove) THEN [err |-> NoError, version |-> version]
     ELSE IF ~IsList(remove)
     THEN [err |-> MustBeList("remove"), version |-> version]
     ELSE [err |-> NoError,
           version |-> add_remove_addons(version, remove.items, mode)]

parse_addons(version, addons, mode) ==
  LET err == check_dict_expected_keys({"upgrade", "install", "remove"},
                                      addons, "addons")
      up == addons_upgrade(version, addons, mode)
      ins == addons_install(up.version, addons, mode)
      rem == addons_remove(ins.version, addons, mode)
  IN IF err # NoError THEN [err |-> err, version |-> version]
     ELSE IF up.err # NoError THEN up
     ELSE IF ins.err # NoError THEN ins
     ELSE rem

\* ----------------------------------------------------------------- a version
\* parsed_version.get('version')
number_of(parsed_version) ==
  IF ~IsDict(parsed_version) \/ parsed_version.version.t = "absent"
  THEN PyNone ELSE parsed_version.version

\* A Version built on options of its own instead of the resolved ones.
parse_version_own_options(parsed_version, options) ==
  LET err == check_dict_expected_keys({"version", "operations", "addons", "modes"},
                                      parsed_version, "versions")
  IN IF err # NoError
     THEN [err |-> err, version |-> NoVersion]
     ELSE [err |-> NoError,
           version |-> Version(number_of(parsed_version),
                               MigrationOption(options.odoo_cmd, <<>>, options.odoo_dsn,
                                               PyStr(<<>>)))]

\* the key check of a version node, then Version(number, options)
parse_version_new(parsed_version, options) ==
  LET err == check_dict_expected_keys({"version", "operations", "addons", "modes"},
                                      parsed_version, "versions")
  IN IF err # NoError
     THEN [err |-> err, version |-> NoVersion]
     ELSE [err |-> NoError, version |-> Version(number_of(parsed_version), options)]

\* parsed_version.get('operations') or {}   /   mode.get('operations') or {}
operations_of(node) ==
  IF BlockTruthy(node.operations) THEN node.operations ELSE EmptyOps

\* parsed_version.get('addons') or {}   /   mode.get('addons') or {}
addons_of(node) ==
  IF BlockTruthy(node.addons) THEN node.addons ELSE EmptyAddons

EmptyModes == ModesShape("map")

\* parsed_version.get('modes', {})
modes_of(parsed_version) ==
  IF parsed_version.modes.t = "absent" THEN EmptyModes ELSE parsed_version.modes

\* The loop over modes.items() without the isinstance check before it.
parse_modes_unchecked(modes) == NoError

parse_modes_check(modes) ==
  IF ~IsDict(modes) THEN MustBeDict("modes") ELSE NoError

\* the key check of one mode block
parse_mode_check(mode, mode_name) ==
  check_dict_expected_keys({"operations", "addons"}, mode, mode_name)

\* ------------------------------------------------------------ the documents
ListSlots ==
  {Slot(t) : t \in {"absent"} \cup NonListShapes}
    \cup {ListOf(l) : l \in SeqsUpTo(Elems, MaxItems)}
SmallSlots == {AbsentSlot, Slot("scalar"), ListOf(<<"b">>)}

OpsBlocks ==
  {OpsShape(t) : t \in {"absent"} \cup NonMapShapes}
    \cup {OpsBlock("map", pre, post, {}) : pre \in ListSlots, post \in SmallSlots}
    \cup {OpsBlock("map", pre, post, {}) : pre \in SmallSlots, post \in ListSlots}
    \cup {OpsBlock("map", pre, post, {"delete"}) : pre \in SmallSlots, post \in SmallSlots}

TinySlots == {AbsentSlot, ListOf(<<"a">>)}
AddonsBlocks ==
  {AddonsShape(t) : t \in {"absent"} \cup NonMapShapes}
    \cup {AddonsBlock("map", up, ins, rem, {}) :
            up \in ListSlots, ins \in TinySlots, rem \in TinySlots}
    \cup {AddonsBlock("map", up, ins, rem, {}) :
            up \in TinySlots, ins \in ListSlots, rem \in TinySlots}
    \cup {AddonsBlock("map", up, ins, rem, {}) :
            up \in TinySlots, ins \in TinySlots, rem \in ListSlots}
    \cup {AddonsBlock("map", up, ins, AbsentSlot, {"delete"}) :
            up \in SmallSlots, ins \in TinySlots}

GoodOps == OpsBlock("map", ListOf(<<"a">>), AbsentSlot, {})
BadOps == OpsBlock("map", AbsentSlot, Slot("scalar"), {})
GoodAddons == AddonsBlock("map", ListOf(<<"a">>), AbsentSlot, ListOf(<<"b">>), {})
BadAddons == AddonsBlock("map", AbsentSlot, Slot("scalar"), AbsentSlot, {})

SmallOps == {OpsShape("absent"), GoodOps, BadOps,
             OpsBlock("map", AbsentSlot, AbsentSlot, {"delete"})}
SmallAddons == {AddonsShape("absent"), GoodAddons, BadAddons,
                AddonsBlock("map", AbsentSlot, AbsentSlot, AbsentSlot, {"delete"})}

ModeBlocks ==
  {ModeShape(t) : t \in {"absent"} \cup NonMapShapes}
    \cup {ModeBlock("map", o, a, e) :
            o \in SmallOps, a \in SmallAddons, e \in {{}, {"delete"}}}
OtherModeBlocks ==
  {ModeShape("absent"), ModeShape("null"), ModeBlock("map", GoodOps, GoodAddons, {})}

ModesBlocks ==
  {ModesShape(t) : t \in {"absent"} \cup NonMapShapes}
    \cup {ModesBlock("map", demo, prod) : demo \in ModeBlocks, prod \in OtherModeBlocks}

NoOps == OpsShape("absent")
NoAddons == AddonsShape("absent")
NoModes == ModesShape("absent")

BaseBlocks == {<<NoOps, NoAddons>>, <<GoodOps, GoodAddons>>,
               <<BadOps, GoodAddons>>, <<GoodOps, BadAddons>>}

\* The version nodes that vary one block in full.
RichNodes ==
  {VersionNode("map", Number("3"), o, NoAddons, NoModes, {}) : o \in OpsBlocks}
    \cup {VersionNode("map", Number("3"), NoOps, a, NoModes, {}) : a \in AddonsBlocks}
    \cup {VersionNode("map", Number("3"), b[1], b[2], m, {}) :
            b \in BaseBlocks, m \in ModesBlocks}
    \cup {NodeShape(t) : t \in NonMapShapes \cup {"map"}}

\* The version nodes that surround them in a `versions` list.
PlainNodes ==
  {VersionNode("map", Number("1"), NoOps, NoAddons, NoModes, {}),
   VersionNode("map", Number("2"), GoodOps,
               AddonsBlock("map", ListOf(<<"b">>), AbsentSlot, AbsentSlot, {}),
               NoModes, {}),
   VersionNode("map", Number("1"), NoOps, NoAddons, NoModes, {"delete"}),
   NodeShape("scalar")}

PlainLists == SeqsUpTo(PlainNodes, MaxVersions)
VersionLists ==
  PlainLists \cup {[l EXCEPT ![i] = r] : <<l, i>> \in {<<l, i>> \in PlainLists \X (1..MaxVersions) : i <= Len(l)}, r \in RichNodes}

VersionsSlots ==
  {Slot(t) : t \in {"absent"} \cup NonListShapes}
    \cup {ListOf(l) : l \in VersionLists}

CfgStrings == {PyStr(s) : s \in SeqsUpTo({"x", " "}, MaxArgLen)}
DocStrings == {PyStr(s) : s \in SeqsUpTo({"y", " "}, MaxArgLen)}

Configs ==
  [odoo_cmd : {PyNone, PyStr(<<>>), PyStr(<<"c">>)},
   odoo_args : {PyNone} \cup CfgStrings,
   odoo_addons_path : {PyNone, PyStr(<<"p">>)},
   dsn_ok : BOOLEAN]
NoConfig(dsn_ok) ==
  [odoo_cmd |-> PyNone, odoo_args |-> PyNone, odoo_addons_path |-> PyNone,
   dsn_ok |-> dsn_ok]

OptionsBlocks ==
  {OptionsShape(t) : t \in {"absent"} \cup NonMapShapes}
    \cup {OptionsBlock("map", c, a, p) :
            c \in {AbsentOpt, PyStr(<<>>), PyStr(<<"d">>)},
            a \in {AbsentOpt, PyInt} \cup DocStrings,
            p \in {AbsentOpt, PyStr(<<"q">>)}}

OneVersion == ListOf(<<VersionNode("map", Number("2"), GoodOps, GoodAddons, NoModes, {})>>)

MigrationNodes ==
  {MigrationShape(t) : t \in {"absent"} \cup NonMapShapes \cup {"map"}}
    \cup {MigrationNode("map", OptionsShape("absent"), OneVersion, e) :
            e \in {{}, {"delete"}}}

\* Root values: what yaml.safe_load returns for the stream.
RootDocs ==
  {RootShape(t) : t \in {"none", "zero", "scalar", "list"}}
    \cup {Root("map", m, e) : m \in MigrationNodes, e \in {{}, {"other"}}}
OptionDocs ==
  {Root("map", MigrationNode("map", o, v, {}), {}) :
     o \in OptionsBlocks, v \in {AbsentSlot, OneVersion}}
VersionDocs ==
  {Root("map", MigrationNode("map", OptionsShape("absent"), v, {}), {}) :
     v \in VersionsSlots}

Inputs ==
  (RootDocs \X {NoConfig(TRUE), NoConfig(FALSE)})
    \cup (OptionDocs \X Configs)
    \cup (VersionDocs \X {NoConfig(TRUE)})

\* ---------------------------------------------------------------- the state
VARIABLES
  config,      \* self.config
  buffer,      \* the content of the stream load_from_buffer reads
  parsed,      \* self.parsed
  pc,          \* where the parse call stands
  options,     \* the `options` local of _parse_migrations
  n_options,   \* how many times _parse_options has run
  versions,    \* the versions _parse_versions has built so far
  vi,          \* index of the version node being built
  version,     \* the Version being built by _parse_version
  modes_todo,  \* the mode names modes.items() has not yielded yet
  mode_name,   \* the mode being processed
  result,      \* what parse returned or raised
  log          \* the nodes processed so far, in order

vars == <<config, buffer, parsed, pc, options, n_options, versions, vi, version,
          modes_todo, mode_name, result, log>>

NoResult == [kind |-> "none", err |-> NoError, plan |-> Migration(<<>>)]
Raised(err) == [kind |-> "raised", err |-> err, plan |-> Migration(<<>>)]
Returned(plan) == [kind |-> "returned", err |-> NoError, plan |-> plan]

Step(step, i, mode) == [step |-> step, vi |-> i, mode |-> mode]

\* YamlParser(config): self.parsed = parsed or None
Init ==
  /\ \E input \in Inputs : buffer = input[1] /\ config = input[2]
  /\ parsed = RootShape("none")
  /\ pc = "ready"
  /\ options = NoOptions
  /\ n_options = 0
  /\ versions = <<>>
  /\ vi = 0
  /\ version = NoVersion
  /\ modes_todo = {}
  /\ mode_name = None
  /\ result = NoResult
  /\ log = <<>>

\* ------------------------------------------------------------- the parse call
\* The root checks of parse(): its error, or NoError.
parse_root(root) ==
  IF ~BlockTruthy(root) THEN NoYaml
  ELSE IF ~IsDict(root) THEN AttributeError("get")
  ELSE IF ~BlockTruthy(root.migration) THEN MissingMigration
  ELSE check_dict_expected_keys({"options", "versions"}, root.migration, "migration")

\* The orders in which a dict may yield the keys S.
Orders(S) ==
  {o \in [1..Cardinality(S) -> S] : \A i, j \in 1..Cardinality(S) : o[i] = o[j] => i = j}

\* The version nodes _parse_versions iterates over.
Todo == versions_of(parsed.migration).items
Node == Todo[vi]

Fail(err) == pc' = "failed" /\ result' = Raised(err)

load_from_buffer ==
  /\ pc = "ready"
  /\ parsed' = buffer
  /\ UNCHANGED <<config, buffer, pc, options, n_options, versions, vi, version,
                 modes_todo, mode_name, result, log>>

parse ==
  /\ pc = "ready"
  /\ log' = Append(log, Step("root", 0, None))
  /\ LET err == parse_root(parsed)
     IN IF err # NoError THEN Fail(err)
        ELSE pc' = "options" /\ UNCHANGED result
  /\ UNCHANGED <<config, buffer, parsed, options, n_options, versions, vi, version,
                 modes_todo, mode_name>>

ParseOptions ==
  /\ pc = "options"
  /\ log' = Append(log, Step("options", 0, None))
  /\ n_options' = n_options + 1
  /\ LET res == parse_options(config, parsed.migration)
     IN IF res.err # NoError
        THEN Fail(res.err) /\ UNCHANGED options
        ELSE pc' = "versions" /\ options' = res.options /\ UNCHANGED result
  /\ UNCHANGED <<config, buffer, parsed, versions, vi, version, modes_todo, mode_name>>

ParseVersions ==
  /\ pc = "versions"
  /\ log' = Append(log, Step("versions", 0, None))
  /\ LET err == parse_versions_check(versions_of(parsed.migration))
     IN IF err # NoError
        THEN Fail(err) /\ UNCHANGED vi
        ELSE pc' = "version" /\ vi' = 1 /\ UNCHANGED result
  /\ UNCHANGED <<config, buffer, parsed, options, n_options, versions, version,
                 modes_todo, mode_name>>

ParseVersion ==
  /\ pc = "version"
  /\ vi <= Len(Todo)
  /\ log' = Append(log, Step("version", vi, None))
  /\ LET res == parse_version_new(Node, options)
     IN IF res.err # NoError
        THEN Fail(res.err) /\ UNCHANGED version
        ELSE pc' = "v_operations" /\ version' = res.version /\ UNCHANGED result
  /\ UNCHANGED <<config, buffer, parsed, options, n_options, versions, vi,
                 modes_todo, mode_name>>

VersionOperations ==
  /\ pc = "v_operations"
  /\ log' = Append(log, Step("operations", vi, None))
  /\ LET operations == operations_of(Node)
     IN \E order \in Orders(KeysOf(operations) \cap OperationTypes) :
          LET res == parse_operations(version, operations, None, order)
          IN /\ version' = res.version
             /\ IF res.err # NoError THEN Fail(res.err)
                ELSE pc' = "v_addons" /\ UNCHANGED result
  /\ UNCHANGED <<config, buffer, parsed, options, n_options, versions, vi,
                 modes_todo, mode_name>>

VersionAddons ==
  /\ pc = "v_addons"
  /\ log' = Append(log, Step("addons", vi, None))
  /\ LET res == parse_addons(version, addons_of(Node), None)
     IN /\ version' = res.version
        /\ IF res.err # NoError THEN Fail(res.err)
           ELSE pc' = "v_modes" /\ UNCHANGED result
  /\ UNCHANGED <<config, buffer, parsed, options, n_options, versions, vi,
                 modes_todo, mode_name>>

VersionModes ==
  /\ pc = "v_modes"
  /\ log' = Append(log, Step("modes", vi, None))
  /\ LET modes == modes_of(Node)
         err == parse_modes_check(modes)
     IN IF err # NoError
        THEN Fail(err) /\ UNCHANGED modes_todo
        ELSE pc' = "mode" /\ modes_todo' = KeysOf(modes) /\ UNCHANGED result
  /\ UNCHANGED <<config, buffer, parsed, options, n_options, versions, vi, version,
                 mode_name>>

ModeStart ==
  /\ pc = "mode"
  /\ \E name \in modes_todo :
       /\ modes_todo' = modes_todo \ {name}
       /\ mode_name' = name
       /\ log' = Append(log, Step("mode", vi, name))
       /\ LET err == parse_mode_check(modes_of(Node)[name], name)
          IN IF err # NoError THEN Fail(err)
             ELSE pc' = "m_operations" /\ UNCHANGED result
  /\ UNCHANGED <<config, buffer, parsed, options, n_options, versions, vi, version>>

ModeOperations ==
  /\ pc = "m_operations"
  /\ log' = Append(log, Step("operations", vi, mode_name))
  /\ LET mode_operations == operations_of(modes_of(Node)[mode_name])
     IN \E order \in Orders(KeysOf(mode_operations) \cap OperationTypes) :
          LET res == parse_operations(version, mode_operations, mode_name, order)
          IN /\ version' = res.version
             /\ IF res.err # NoError THEN Fail(res.err)
                ELSE pc' = "m_addons" /\ UNCHANGED result
  /\ UNCHANGED <<config, buffer, parsed, options, n_options, versions, vi,
                 modes_todo, mode_name>>

ModeAddons ==
  /\ pc = "m_addons"
  /\ log' = Append(log, Step("addons", vi, mode_name))
  /\ LET res == parse_addons(version, addons_of(modes_of(Node)[mode_name]), mode_name)
     IN /\ version' = res.version
        /\ IF res.err # NoError THEN Fail(res.err)
           ELSE pc' = "mode" /\ UNCHANGED result
  /\ UNCHANGED <<config, buffer, parsed, options, n_options, versions, vi,
                 modes_todo, mode_name>>

\* `return version`: the list comprehension of _parse_versions keeps it
VersionDone ==
  /\ pc = "mode"
  /\ modes_todo = {}
  /\ versions' = Append(versions, version)
  /\ vi' = vi + 1
  /\ pc' = "version"
  /\ UNCHANGED <<config, buffer, parsed, options, n_options, version, modes_todo,
                 mode_name, result, log>>

\* `return Migration(versions)`
Return ==
  /\ pc = "version"
  /\ vi > Len(Todo)
  /\ result' = Returned(Migration(versions))
  /\ pc' = "done"
  /\ UNCHANGED <<config, buffer, parsed, options, n_options, versions, vi, version,
                 modes_todo, mode_name, log>>

Next ==
  \/ load_from_buffer
  \/ parse
  \/ ParseOptions
  \/ ParseVersions
  \/ ParseVersion
  \/ VersionOperations
  \/ VersionAddons
  \/ VersionModes
  \/ ModeStart
  \/ ModeOperations
  \/ ModeAddons
  \/ VersionDone
  \/ Return

Spec == Init /\ [][Next]_vars

\* ====================================================================== claims
\* What the document declares, read off the document alone.

\* The entries of the document's `versions` list (none when it is no list).
DeclaredVersions ==
  IF parsed.t = "map" /\ parsed.migration.t = "map"
       /\ parsed.migration.versions.t = "list"
  THEN parsed.migration.versions.items
  ELSE <<>>

\* The identifier a version node declares (None when it declares none).
DeclaredNumber(node) ==
  IF node.t = "map" /\ node.version.t = "str" THEN node.version ELSE PyNone

\* The block of a version node that holds the lists of `kind` for `scope`.
DeclaredBlock(node, kind, scope) ==
  LET holder == IF scope = None THEN node ELSE node.modes[scope]
  IN IF kind \in OperationTypes THEN holder.operations ELSE holder.addons

\* The list a version node declares for `kind` in `scope`.
DeclaredList(node, kind, scope) ==
  LET value == DeclaredBlock(node, kind, scope)[kind]
  IN IF value.t = "list" THEN value.items ELSE <<>>

\* The steps that have run.
Ran(step) == \E j \in 1..Len(log) : log[j].step = step
LastStep == log[Len(log)]

\* A value that is not a sequence although it is neither empty nor null.
WrongOps(block) ==
  {k \in OperationTypes : block[k].t \notin {"absent", "list"}}
WrongAddons(block) ==
  {k \in AddonKinds : block[k].t \in {"scalar", "map"}}

BadOpsBlock(b) ==
  \/ b.t \in {"scalar", "list"}
  \/ b.t = "map" /\ (b.extra # {} \/ WrongOps(b) # {})
BadAddonsBlock(b) ==
  \/ b.t \in {"scalar", "list"}
  \/ b.t = "map" /\ (b.extra # {} \/ WrongAddons(b) # {})
BadMode(m) ==
  /\ m.t # "absent"
  /\ \/ m.t # "map"
     \/ m.extra # {}
     \/ BadOpsBlock(m.operations)
     \/ BadAddonsBlock(m.addons)
BadModes(ms) ==
  /\ ms.t # "absent"
  /\ (ms.t # "map" \/ \E n \in ModeNames : BadMode(ms[n]))
BadNode(n) ==
  \/ n.t # "map"
  \/ n.extra # {}
  \/ BadOpsBlock(n.operations)
  \/ BadAddonsBlock(n.addons)
  \/ BadModes(n.modes)
BadVersions(v) ==
  \/ v.t \in {"scalar", "map"}
  \/ v.t = "list" /\ \E i \in 1..Len(v.items) : BadNode(v.items[i])
BadOptions(o, cfg) ==
  \/ o.t \in {"scalar", "list"} /\ \E f \in {"odoo_cmd", "odoo_args", "odoo_addons_path"} :
                                      cfg[f].t = "none" \/ cfg[f].s = <<>>
  \/ ~cfg.dsn_ok
  \/ o.t = "map" /\ o.odoo_args.t = "int" /\ (cfg.odoo_args.t = "none" \/ cfg.odoo_args.s = <<>>)
BadMigration(m, cfg) ==
  \/ m.t # "map"
  \/ m.options.t = "absent" /\ m.versions.t = "absent" /\ m.extra = {}
  \/ m.extra # {}
  \/ BadOptions(m.options, cfg)
  \/ BadVersions(m.versions)

\* The document (with the configuration it is parsed under) holds something
\* that one of the parser's checks rejects.
HasViolation ==
  \/ parsed.t # "map"
  \/ BadMigration(parsed.migration, config)

\* C1: a parse that returns yields one version per entry of the document's
\* `versions` list (none when the list is absent), the i-th built from the
\* i-th entry; and a document without violation is never rejected.
C1_VersionsInOrder ==
  /\ pc = "done" =>
       /\ result.kind = "returned"
       /\ Len(result.plan.versions) = Len(DeclaredVersions)
       /\ \A i \in 1..Len(DeclaredVersions) :
            result.plan.versions[i].number = DeclaredNumber(DeclaredVersions[i])
  /\ pc = "failed" => HasViolation

C1_Witness ==
  /\ pc = "done"
  /\ Len(result.plan.versions) = 2
  /\ result.plan.versions[1].number = Number("2")
  /\ result.plan.versions[2].number = Number("3")

\* ------------------------------------------------------------------------ C4
\* The configuration supplies a value: a non-empty string.
Supplies(value) == value.t = "str" /\ value.s # <<>>

\* What the document's `options` block declares for a field.
DeclaredOption(field) ==
  LET o == parsed.migration.options
  IN IF o.t = "map" /\ o[field].t # "absent" THEN o[field] ELSE PyNone

\* Configuration first, then the document, then the default.
Precedence(field, default) ==
  IF Supplies(config[field]) THEN config[field]
  ELSE IF DeclaredOption(field).t # "none" THEN DeclaredOption(field)
  ELSE default

\* C4: each resolved option is the configuration's value when the
\* configuration supplies one, else the document's, else the default (None
\* for odoo_cmd, the empty string for the others); odoo_args is the chosen
\* string split on blanks.
C4_OptionPrecedence ==
  options # NoOptions =>
    /\ options.odoo_cmd = Precedence("odoo_cmd", PyNone)
    /\ options.odoo_args = split(Precedence("odoo_args", PyStr(<<>>)).s)
    /\ options.odoo_addons_path = Precedence("odoo_addons_path", PyStr(<<>>))

C4_Witness ==
  /\ options # NoOptions
  /\ config.odoo_cmd = PyStr(<<"c">>)
  /\ DeclaredOption("odoo_cmd") = PyStr(<<"d">>)
  /\ options.odoo_cmd = PyStr(<<"c">>)
  /\ config.odoo_args = PyNone
  /\ DeclaredOption("odoo_args") = PyStr(<<" ", "y">>)
  /\ options.odoo_args = <<(<<"y">>)>>

\* ------------------------------------------------------------------------ C6
DocVersions == parsed.migration.versions

\* C6 as stated: once the `versions` check has run, a `versions` key whose
\* value is anything but a sequence (or null) has made parse fail with a
\* ParseError.
C6_AnyNonSequenceFails ==
  (Ran("versions") /\ DocVersions.t \notin {"absent", "null", "list"}) =>
    (pc = "failed" /\ result.err.kind = "ParseError")

\* C6 amended: once the `versions` check has run, a `versions` value that is
\* a non-empty mapping or a non-empty scalar has made parse fail with the
\* ParseError "'versions' key must be a list"; an absent key and an empty
\* value of any shape (null, 0, False, "", {}, []) pass the check, and the
\* plan returned for them is empty.
C6_TruthyNonSequenceFails ==
  Ran("versions") =>
    /\ DocVersions.t \in {"scalar", "map"} =>
         (pc = "failed" /\ result = Raised(MustBeList("versions")))
    /\ (DocVersions.t \in {"absent", "null", "zero", "emptystr", "emptymap"}
          \/ DocVersions = ListOf(<<>>)) =>
         /\ pc \in {"version", "done"}
         /\ versions = <<>>
         /\ pc = "done" => result = Returned(Migration(<<>>))

C6_Witness ==
  /\ DocVersions.t = "emptymap"
  /\ pc = "done"
  /\ result = Returned(Migration(<<>>))

\* ------------------------------------------------------------------------ C7
\* The version node and the block the last step has processed.
LastNode == DeclaredVersions[LastStep.vi]
LastHolder == IF LastStep.mode = None THEN LastNode ELSE LastNode.modes[LastStep.mode]
OpsChecked ==
  /\ log # <<>>
  /\ LastStep.step = "operations"
  /\ LastHolder.operations.t = "map"
  /\ LastHolder.operations.extra = {}
AddonsChecked ==
  /\ log # <<>>
  /\ LastStep.step = "addons"
  /\ LastHolder.addons.t = "map"
  /\ LastHolder.addons.extra = {}

\* The keys of an `operations` block whose value is present and no sequence.
NonSequenceOps(block) ==
  {k \in OperationTypes : block[k].t \notin {"absent", "list"}}
\* The keys of an `addons` block whose value is present, not empty (null, "",
\* {} or []), and no sequence.
NonSequenceAddons(block) ==
  {k \in AddonKinds : block[k].t \in {"zero", "scalar", "map"}}

FailedNaming(keys) ==
  /\ pc = "failed"
  /\ result.kind = "raised"
  /\ result.err.kind = "ParseError"
  /\ result.err.form = "must_be_list"
  /\ result.err.name \in keys

\* C7 as stated: once an `operations` or `addons` block has been processed,
\* a value in it that is present and no sequence (for addons: and not empty)
\* has made parse fail with a ParseError naming an offending key.
C7_AnyNonSequenceFails ==
  /\ (OpsChecked /\ NonSequenceOps(LastHolder.operations) # {}) =>
       FailedNaming(NonSequenceOps(LastHolder.operations))
  /\ (AddonsChecked /\ NonSequenceAddons(LastHolder.addons) # {}) =>
       FailedNaming(NonSequenceAddons(LastHolder.addons))

\* The first key, in the order upgrade, install, remove, among `keys`.
FirstAddonKey(keys) ==
  IF "upgrade" \in keys THEN "upgrade"
  ELSE IF "install" \in keys THEN "install" ELSE "remove"

\* C7 amended: in a processed `operations` block every present value that is
\* no sequence, null included, makes parse fail with a ParseError naming such
\* a key; in a processed `addons` block only a non-empty value that is no
\* sequence does (the first in the order upgrade, install, remove is the
\* one named), and an absent or empty value of any shape (null, 0, False, "",
\* {}, []) is a no-op; with no such value the block raises nothing.
C7_SequenceChecks ==
  /\ OpsChecked =>
       IF WrongOps(LastHolder.operations) # {}
       THEN FailedNaming(WrongOps(LastHolder.operations))
       ELSE pc # "failed"
  /\ AddonsChecked =>
       IF WrongAddons(LastHolder.addons) # {}
       THEN FailedNaming({FirstAddonKey(WrongAddons(LastHolder.addons))})
       ELSE pc # "failed"

C7_Witness ==
  /\ AddonsChecked
  /\ LastHolder.addons.upgrade.t = "zero"
  /\ LastHolder.addons.install = ListOf(<<"a">>)
  /\ pc # "failed"
  /\ version.buckets[<<"upgrade", LastStep.mode>>] = <<>>
  /\ version.buckets[<<"install", LastStep.mode>>] = <<"a">>

\* ------------------------------------------------------------------------ C5
Range(l) == {l[j] : j \in 1..Len(l)}
AllBuckets == Kinds \X Scopes

\* The scope of the block being processed.
CurrentScope == IF pc \in {"m_operations", "m_addons"} THEN mode_name ELSE None

\* Every built version holds, under each scope, elements declared under that
\* scope only, and all of them.
C5_BuiltScopes ==
  \A i \in 1..Len(versions) : \A sc \in AllBuckets :
    Range(versions[i].buckets[sc])
      = Range(DeclaredList(DeclaredVersions[i], sc[1], sc[2]))

\* Processing a block adds to the buckets of the block's own scope only.
C5_AddsToOwnScope ==
  pc \in {"v_operations", "v_addons", "m_operations", "m_addons"} =>
    \A sc \in AllBuckets :
      version'.buckets[sc] # version.buckets[sc] => sc[2] = CurrentScope

\* C5: what a mode M declares is added under mode M, never under None nor
\* under another mode, and what the base level declares is added under None,
\* never under a mode.
C5_ModeIsolation == []C5_BuiltScopes /\ [][C5_AddsToOwnScope]_vars

C5_Witness ==
  /\ pc = "done"
  /\ \E i \in 1..Len(result.plan.versions) :
       LET b == result.plan.versions[i].buckets
       IN /\ b[<<"pre", None>>] = <<"a">>
          /\ b[<<"pre", "demo">>] = <<"a">>
          /\ b[<<"remove", "demo">>] = <<"b">>
          /\ b[<<"remove", "prod">>] = <<"b">>

\* ------------------------------------------------------------------------ C8
\* C8: in a returned plan every bucket (kind, scope) of every version is the
\* list the document declares for that kind in that scope: the same elements,
\* in the same order, as many times.
C8_BucketsAreDeclaredLists ==
  pc = "done" =>
    \A i \in 1..Len(result.plan.versions) : \A sc \in AllBuckets :
      result.plan.versions[i].buckets[sc]
        = DeclaredList(DeclaredVersions[i], sc[1], sc[2])

C8_Witness ==
  /\ pc = "done"
  /\ Len(result.plan.versions) = 2
  /\ result.plan.versions[1].buckets[<<"pre", None>>] = <<"a">>
  /\ result.plan.versions[2].buckets[<<"pre", None>>] = <<"a", "a">>
  /\ result.plan.versions[2].buckets[<<"post", None>>] = <<"b">>

\* ------------------------------------------------------------------------ C9
\* The step that may come right after step a, in the order of the claim:
\* root checks, option resolution, the versions in document order, and in a
\* version its key check, base operations, base addons, then each mode.
Follows(a, b) ==
  CASE a.step = "root" -> b = Step("options", 0, None)
    [] a.step = "options" -> b = Step("versions", 0, None)
    [] a.step = "versions" -> b = Step("version", 1, None)
    [] a.step = "version" -> b = Step("operations", a.vi, None)
    [] a.step = "mode" -> b = Step("operations", a.vi, a.mode)
    [] a.step = "operations" -> b = Step("addons", a.vi, a.mode)
    [] a.step = "addons" /\ a.mode = None -> b = Step("modes", a.vi, None)
    [] OTHER -> \/ b = Step("version", a.vi + 1, None)
                \/ b.step = "mode" /\ b.vi = a.vi /\ b.mode \in ModeNames

InOrder ==
  /\ log # <<>> => log[1] = Step("root", 0, None)
  /\ \A j \in 1..(Len(log) - 1) : Follows(log[j], log[j + 1])
  /\ \A j, k \in 1..Len(log) : log[j] = log[k] => j = k

\* The node a step processes holds something the step's checks reject.
StepViolates(st) ==
  LET m == parsed.migration
      node == DeclaredVersions[st.vi]
      holder == IF st.mode = None THEN node ELSE node.modes[st.mode]
  IN CASE st.step = "root" ->
            \/ parsed.t # "map"
            \/ m.t # "map"
            \/ m.options.t = "absent" /\ m.versions.t = "absent" /\ m.extra = {}
            \/ m.extra # {}
       [] st.step = "options" -> BadOptions(m.options, config)
       [] st.step = "versions" -> m.versions.t \in {"scalar", "map"}
       [] st.step = "version" -> node.t # "map" \/ node.extra # {}
       [] st.step = "operations" -> BadOpsBlock(holder.operations)
       [] st.step = "addons" -> BadAddonsBlock(holder.addons)
       [] st.step = "modes" -> node.modes.t \notin {"absent", "map"}
       [] st.step = "mode" -> holder.t # "map" \/ holder.extra # {}

\* Every node of the document has been processed.
AllProcessed ==
  \A i \in 1..Len(DeclaredVersions) :
    /\ \A st \in {"version", "operations", "addons", "modes"} :
         \E j \in 1..Len(log) : log[j] = Step(st, i, None)
    /\ \A n \in ModeNames : DeclaredVersions[i].modes[n].t # "absent" =>
         \A st \in {"mode", "operations", "addons"} :
           \E j \in 1..Len(log) : log[j] = Step(st, i, n)

C9_StopsAtFirstViolation ==
  /\ InOrder
  /\ \A j \in 1..(Len(log) - 1) : ~StepViolates(log[j])
  /\ log # <<>> => (pc = "failed" <=> StepViolates(LastStep))
  /\ pc = "failed" =>
       /\ result.kind = "raised"
       /\ result.err.kind \in {"ParseError", "ConfigurationError", "AttributeError"}
       /\ result.plan = Migration(<<>>)
  /\ result.kind = "raised" => pc = "failed"
  /\ result.kind = "returned" => (pc = "done" /\ ~HasViolation /\ AllProcessed)

\* C9: the nodes are processed in the order of the claim; the first node that
\* violates a check makes the call raise, nothing is processed after it, and
\* a plan is returned only for a document without violation, every node of
\* which has been processed.
C9_FailFast == []C9_StopsAtFirstViolation /\ [][pc # "failed"]_vars

C9_Witness ==
  /\ pc = "failed"
  /\ Len(versions) = 1
  /\ Len(DeclaredVersions) = 2
  /\ LastStep = Step("addons", 2, "demo")
  /\ result.plan = Migration(<<>>)

\* ----------------------------------------------------------------------- C10
\* options.get is called on a value that has no such method.
OptionsGetFails ==
  /\ parsed.migration.options.t \in {"scalar", "list"}
  /\ \E f \in {"odoo_cmd", "odoo_args", "odoo_addons_path"} : ~Supplies(config[f])

C10_OneSharedOptions ==
  /\ n_options <= 1
  /\ Ran("options") <=> n_options = 1
  /\ pc = "done" => n_options = 1
  /\ \A i \in 1..Len(versions) : versions[i].options = options
  /\ pc \in {"v_operations", "v_addons", "v_modes", "mode", "m_operations", "m_addons"} =>
       version.options = options
  /\ pc = "done" =>
       /\ options.odoo_dsn = DatabaseDsn(config).dsn
       /\ \A i \in 1..Len(result.plan.versions) :
            result.plan.versions[i].options = options
  /\ (Ran("options") /\ ~OptionsGetFails /\ DatabaseDsn(config).err # NoError) =>
       result = Raised(DatabaseDsn(config).err)

C10_ResolvedFirstAndKept ==
  /\ n_options' # n_options =>
       (versions = <<>> /\ version = NoVersion /\ ~Ran("version"))
  /\ Ran("options") => options' = options

\* C10: option resolution (with its one call of the DSN builder) runs once,
\* before any version is built; every Version holds the resolved options,
\* which do not change while versions are built; the DSN builder's
\* ConfigurationError is what parse raises.
C10_OptionsOnce == []C10_OneSharedOptions /\ [][C10_ResolvedFirstAndKept]_vars

C10_Witness ==
  /\ pc = "done"
  /\ n_options = 1
  /\ Len(result.plan.versions) = 2
  /\ options.odoo_dsn = "dsn"
  /\ result.plan.versions[1].options = options
  /\ result.plan.versions[2].options = options

\* ------------------------------------------------------------------------ C2
\* The mapping whose keys the last step has checked, and its context.
CheckedMapping ==
  CASE LastStep.step = "root" -> parsed.migration
    [] LastStep.step = "version" -> LastNode
    [] LastStep.step = "operations" -> LastHolder.operations
    [] LastStep.step = "addons" -> LastHolder.addons
    [] LastStep.step = "mode" -> LastHolder
CheckedContext ==
  CASE LastStep.step = "root" -> "migration"
    [] LastStep.step = "version" -> "versions"
    [] LastStep.step = "operations" -> "operations"
    [] LastStep.step = "addons" -> "addons"
    [] LastStep.step = "mode" -> LastStep.mode

\* C2: when the mapping a step checks (the `migration` node, a version node,
\* an `operations` or `addons` block, a mode block) has a key outside its
\* allowed set, parse has failed with a ParseError whose message names
\* exactly that context and exactly the extra keys.
C2_UnknownKeyNamed ==
  ( /\ log # <<>>
    /\ LastStep.step \in {"root", "version", "operations", "addons", "mode"}
    /\ parsed.t = "map"
    /\ CheckedMapping.t = "map"
    /\ CheckedMapping.extra # {} ) =>
      /\ pc = "failed"
      /\ result.err.kind = "ParseError"
      /\ <<result.err.prefix, result.err.name>> = <<"", CheckedContext>>
      /\ result.err.extra = CheckedMapping.extra

\* ------------------------------------------------------------------------ C3
EmptyInput ==
  \/ parsed.t \in {"none", "zero"}
  \/ parsed.t = "map" /\ parsed.migration.t = "absent" /\ parsed.extra = {}
LacksMigration == parsed.t # "map" \/ parsed.migration.t = "absent"

\* C3: after the root checks, an empty or absent input has raised the
\* ConfigurationError, a loaded root without `migration` key a ParseError;
\* a failed root check has raised one of these two, whatever the shape of
\* the root; and a root that has the `migration` key is not reported as
\* missing it.
C3_RootOutcomes ==
  (log # <<>> /\ LastStep.step = "root") =>
    /\ EmptyInput => result = Raised(NoYaml)
    /\ (~EmptyInput /\ LacksMigration) =>
         (pc = "failed" /\ result.err.kind = "ParseError")
    /\ pc = "failed" => result.err.kind \in {"ParseError", "ConfigurationError"}
    /\ ~LacksMigration => result.err # MissingMigration

====
